---- MODULE Spec2Model ----
(***************************************************************************)
(* Model of the marmot chat client in apps/chat-ui/main.ts: the bootstrap  *)
(* handshake of the creator (alice) and the invitee (bob) over the         *)
(* signalling relay, and the MLS epoch handling of rotateCommit and        *)
(* handleWrapper over the per-member wrappers track.                       *)
(*                                                                         *)
(* JavaScript runs every handler to completion up to its first real        *)
(* suspension (an await on relay or transport I/O), so one action is one   *)
(* such run.  The MLS library (tests/pkg/marmot_chat.js, built from the    *)
(* marmot-chat crate) is not part of the sources; its operations are       *)
(* modelled from the specification text (section 4.1).                     *)
(***************************************************************************)
EXTENDS Integers, Sequences, FiniteSets, TLC

\* ---------------------------------------------------------------- bounds
MaxEvents == 5      \* envelopes published on the relay in one run
MaxGroups == 2      \* create_group calls in one run
MaxEpoch == 2       \* epoch rotations per group in one run
MaxMessages == 1    \* sendMessage calls in one run
MaxFrames == 2      \* frames published by the bridge owner, and by its peers together
MaxTracks == 2      \* track requests the bridge's publisher receives
MaxLoops == 2       \* consumePeerTrack loops started on one connection
MaxStarts == 2      \* times the sender starts audio in one run
MaxRuns == 3        \* runs of the session effect of one view
MaxTime == 7        \* seconds of user-interface time in one run
MaxErrors == 2      \* errors thrown and tracks finished inside the consumePeerTrack loops

Roles == {"alice", "bob"}
Groups == 1..MaxGroups
NoGroup == 0

peerRole(r) == IF r = "alice" THEN "bob" ELSE "alice"

\* the transport bridge (bridge/moq.ts) of one member and the other members
Pubkey == "me"
Peers == {"p1", "p2"}
Members == {Pubkey} \cup Peers
NoTrack == 0

VARIABLES
  events,            \* relay: envelopes published so far; the index is the event id
  seenIds,           \* NostrHandshake.seenIds of each role
  runs,              \* per role and event id: how often the handlers were run
  dupDropped,        \* a repeated delivery was dropped by onevent
  keyPackageStore,   \* alice: keyPackageStore.event/pubkey hold bob's offer
  groupIdHex,        \* state.groupIdHex of each role (NoGroup = undefined)
  handshakeComplete, \* handshakeComplete of each role
  keyPackageInterval,\* "unset" | "active" | "cleared"
  welcomeInterval,   \* "unset" | "active" | "cleared"
  bobPc,             \* bob's main(): "awaitPublish" (await sendBobKeyPackage) | "running"
  aliceAwait,        \* handleAliceGroupCreation runs suspended in await sendWelcome
  nextGroup,         \* next fresh group identifier create_group hands out
  createGroupCalls,  \* number of create_group invocations by alice
  welcomeReplies,    \* welcomes alice published in answer to a request-welcome
  acceptCalls,       \* number of successful accept_welcome calls by bob
  lateWelcomes,      \* welcomes handled by bob after it had joined
  mls,               \* MLS state per role: epoch per group, pending commits
  pendingPeak,       \* per role: largest number of simultaneously pending commits
  mergeLog,          \* per role: <<group, epoch after>> of every merge, in order
  commits,           \* state.chatState.commits of each role
  connectPending,    \* connectMoq() started, Connection.connect not resolved
  connected,         \* state.connection set
  outgoingTrack,     \* state.outgoingTrack is live
  waiting,           \* sendWrapper calls suspended on outgoingDeferred, in order
  track,             \* frames written to each role's wrappers track
  readPos,           \* frames of the peer's track each role has read
  postJoinPublishes, \* key-package/request-welcome envelopes bob sent after joining
  fatalError,        \* per role: a fatal error event was surfaced to the host
  timedOut,          \* the overall wall-clock bound of the handshake has passed
  messages,          \* state.chatState.messages of each role, as <<author, seq, local>>
  sent,              \* per role: number of sendMessage calls that built a wrapper
  inboundDropped,    \* per role: positions of the peer's track whose frame failed
                     \* transiently in handleWrapper and was discarded by its catch
  bridgePc,          \* bridge: "idle" | "connected" (connect() has returned the handle)
  closed,            \* bridge: closed
  currentTrack,      \* bridge: currentTrack (NoTrack = null), tracks are numbered
  acquirePc,         \* acquireTrack: "requested" (await publisher.requested()) | "open"
  trackRequests,     \* number of track requests the publisher has handed out
  readyCalled,       \* bridge: readyCalled
  readyCalls,        \* number of callbacks.onReady() invocations
  graceTimer,        \* the setTimeout of 100 ms: "unset" | "armed" | "fired"
  accepted,          \* a wrappers track request has been accepted
  pendingPublish,    \* bridge: pendingPublish, frames are numbered by publish call
  published,         \* number of publish() calls
  written,           \* <<track, frame, from the queue>> of every writeFrame, in order
  consumeLoops,      \* the consumePeerTrack runs: [peer, pos, got, st]
  peerTrack,         \* per peer: number of frames written to its wrappers track
  consumeErrors,     \* errors thrown and tracks finished so far inside the loops
  reported,          \* the callbacks.onError calls: [message, from, late]
  lateReady,         \* callbacks.onReady was called after callbacks.onClosed
  \* ChatView and the controller behind startChat
  engine,            \* the controller: "starting", "running", "stopped"
  controller,        \* ChatView's controller handle is set
  ready,             \* the ready signal
  currentError,      \* the currentError signal: NoError or [message, fatal]
  dismissTimers,     \* the pending auto-dismiss timers: [message, due]
  uiNow,             \* the time, in seconds
  shownAt,           \* when currentError was set
  lastDismiss,       \* what set currentError to null last
  fatalSurfaced,     \* a fatal error event was surfaced since the last start
  opsAfterFatal,     \* the operations accepted since then
  \* audio: one sending and one receiving ChatView
  epochNow,          \* per party: what controller.currentEpoch() returns
  tx,                \* the sender's handleAudioToggle closure
  starts,            \* audio starts of the sender so far
  frameCounter,      \* per audio start: the frameCounter of its closure
  chunks,            \* onChunk calls so far
  inflight,          \* onChunk runs suspended in encryptAudioFrame
  audioTrack,        \* the payloads handed to moq.publishAudio, each with its session
  rx,                \* the receiver's handleAudioToggle closure
  lastRx,            \* the last onPeerAudio run
  \* the roster and the audio toggle of one ChatView
  members,           \* chatState.members
  lastMemberEvent,   \* the controller event that changed members last
  audioEnabled,      \* the audioEnabled signal
  audioMoq,          \* the audioMoq variable: a bridge or 0
  audioCapture,      \* the audioCapture variable: a capture or 0
  toggles,           \* handleAudioToggle runs that are starting audio
  toggleCount,       \* handleAudioToggle runs that started audio so far
  bridges,           \* the audio bridges that are open, each with its subscriptions
  captures,          \* the audio captures that are running
  \* two calls of buildAAD
  aadLeft,           \* the arguments and the result of one call, or NoAad
  aadRight,          \* those of another call, or NoAad
  \* the chat controllers of one ChatView
  mounted,           \* the view has not been cleaned up
  runId,             \* the runId variable
  pendingStarts,     \* the runs whose startChat promise is pending
  controllerHandle,  \* the run whose handle the controller variable holds, or 0
  running,           \* the runs whose controller was started and not stopped
  stoppedOnArrival,  \* the runs whose handle was stopped when startChat resolved
  roster,            \* controller: members of the group as of the last roster read
  subscribedPeers,   \* controller: the subscription set
  addedPeers         \* controller: members added by the commits processed so far

vars == <<events, seenIds, runs, dupDropped, keyPackageStore, groupIdHex,
          handshakeComplete, keyPackageInterval, welcomeInterval, bobPc,
          aliceAwait, nextGroup, createGroupCalls, welcomeReplies, acceptCalls,
          lateWelcomes, mls, pendingPeak, mergeLog, commits,
          connectPending, connected, outgoingTrack, waiting, track, readPos,
          postJoinPublishes, fatalError, timedOut,
          messages, sent, inboundDropped,
          bridgePc, closed, currentTrack, acquirePc, trackRequests, readyCalled,
          readyCalls, graceTimer, accepted, pendingPublish, published, written,
          consumeLoops, peerTrack, consumeErrors, reported, lateReady, roster,
          subscribedPeers, addedPeers,
          engine, controller, ready, currentError, dismissTimers, uiNow, shownAt,
          lastDismiss, fatalSurfaced, opsAfterFatal,
          epochNow, tx, starts, frameCounter, chunks, inflight, audioTrack, rx, lastRx,
          members, lastMemberEvent, audioEnabled, audioMoq, audioCapture, toggles, toggleCount, bridges,
          captures, mounted, runId, pendingStarts, controllerHandle, running,
          stoppedOnArrival, aadLeft, aadRight>>

\* groups of variables, for UNCHANGED
relayVars == <<events, seenIds, runs, dupDropped>>
aliceHsVars == <<keyPackageStore, aliceAwait, nextGroup, createGroupCalls, welcomeReplies>>
bobHsVars == <<bobPc, acceptCalls, lateWelcomes, postJoinPublishes>>
hsVars == <<groupIdHex, handshakeComplete, keyPackageInterval, welcomeInterval>>
mlsVars == <<mls, pendingPeak, mergeLog, commits>>
moqVars == <<connectPending, connected, outgoingTrack, waiting, track, readPos>>
obsVars == <<fatalError, timedOut>>
chatVars == <<messages, sent, inboundDropped>>
publishVars == <<currentTrack, acquirePc, trackRequests, pendingPublish, published, written>>
readyVars == <<readyCalled, readyCalls, graceTimer, accepted, lateReady>>
consumeVars == <<consumeLoops, peerTrack, consumeErrors, reported>>
controllerVars == <<roster, subscribedPeers, addedPeers>>
bridgeVars == <<bridgePc, closed, publishVars, readyVars, consumeVars, controllerVars>>
sessionVars == <<relayVars, aliceHsVars, bobHsVars, hsVars, mlsVars, moqVars, obsVars, chatVars>>
uiVars == <<engine, controller, ready, currentError, dismissTimers, uiNow, shownAt,
            lastDismiss, fatalSurfaced, opsAfterFatal>>
txVars == <<tx, starts, frameCounter, chunks, inflight, audioTrack>>
rxVars == <<rx, lastRx>>
audioVars == <<epochNow, txVars, rxVars>>
viewVars == <<members, lastMemberEvent, audioEnabled, audioMoq, audioCapture, toggles, toggleCount, bridges,
              captures>>
runVars == <<mounted, runId, pendingStarts, controllerHandle, running, stoppedOnArrival>>
aadVars == <<aadLeft, aadRight>>
hostVars == <<uiVars, audioVars, viewVars, runVars, aadVars>>
mainVars == <<sessionVars, hostVars>>
notUiVars == <<sessionVars, bridgeVars, audioVars, viewVars, runVars, aadVars>>
notAudioVars == <<sessionVars, bridgeVars, uiVars, viewVars, runVars, aadVars>>
notViewVars == <<sessionVars, bridgeVars, uiVars, audioVars, runVars, aadVars>>
notRunVars == <<sessionVars, bridgeVars, uiVars, audioVars, aadVars>>
notAadVars == <<sessionVars, bridgeVars, uiVars, audioVars, viewVars, runVars>>


\* ------------------------------------------------------------- helpers
Max(a, b) == IF a >= b THEN a ELSE b

Range(q) == {q[i] : i \in 1..Len(q)}

\* clearInterval(handle): a no-op on an undefined or already cleared handle
ClearInterval(iv) == IF iv = "active" THEN "cleared" ELSE iv

\* ------------------------------------------------- MLS library (section 4.1)
\* The state of one identity: the epoch of every group it is a member of
\* (-1: not a member) and the commits stashed as pending, oldest first.
NotMember == -1

InitMls == [epoch |-> [g \in Groups |-> NotMember], pending |-> <<>>]

PendingOf(st, g) == SelectSeq(st.pending, LAMBDA c : c.group = g)

\* create_group: forms a new group at epoch 0; the welcome it returns is
\* identified with the group it admits to.
create_group(st, g) == [st EXCEPT !.epoch[g] = 0]

\* accept_welcome: joins the group of the welcome; fails if the welcome is
\* stale, that is if the group has left the epoch the welcome was made in.
accept_welcome(st, w, creatorEpoch) ==
  IF creatorEpoch > 0 \/ st.epoch[w] # NotMember
  THEN [ok |-> FALSE, st |-> st, group_id_hex |-> NoGroup]
  ELSE [ok |-> TRUE, st |-> [st EXCEPT !.epoch[w] = 0], group_id_hex |-> w]

\* self_update: builds a key-rotation commit for the current epoch and keeps
\* it as a pending commit.
self_update(st, g, author) ==
  LET c == [kind |-> "commit", group |-> g, epoch |-> st.epoch[g], author |-> author]
  IN [st |-> [st EXCEPT !.pending = Append(@, c)], commit |-> c]

\* create_message: encrypts a payload to the current epoch of the group; seq
\* stands for the payload
create_message(st, g, author, seq) ==
  [kind |-> "application", group |-> g, epoch |-> st.epoch[g], author |-> author,
   seq |-> seq]

\* ingest_wrapper.  A wrapper of a group the identity is not in is a permanent
\* failure.  An application wrapper decrypts at its own or a later epoch and
\* is a transient failure before.  On a commit wrapper the member's own
\* pending commit is recognised; a peer's commit for the current epoch is
\* stashed as pending; a commit for a later epoch is a transient failure, for
\* an earlier epoch a permanent one.  Failures throw.
ingest_wrapper(st, frame) ==
  IF st.epoch[frame.group] = NotMember
  THEN [ok |-> FALSE, transient |-> FALSE, kind |-> "unprocessable", st |-> st]
  ELSE IF frame.kind = "application"
  THEN IF st.epoch[frame.group] >= frame.epoch
       THEN [ok |-> TRUE, transient |-> FALSE, kind |-> "application", st |-> st]
       ELSE [ok |-> FALSE, transient |-> TRUE, kind |-> "unprocessable", st |-> st]
  ELSE IF frame \in Range(st.pending)
  THEN [ok |-> TRUE, transient |-> FALSE, kind |-> "commit", st |-> st]
  ELSE IF frame.epoch = st.epoch[frame.group]
  THEN [ok |-> TRUE, transient |-> FALSE, kind |-> "commit",
        st |-> [st EXCEPT !.pending = Append(@, frame)]]
  ELSE [ok |-> FALSE, transient |-> frame.epoch > st.epoch[frame.group],
        kind |-> "unprocessable", st |-> st]

\* a merge that does not advance the epoch
merge_pending_commit_noadvance(st, g) ==
  IF PendingOf(st, g) = <<>>
  THEN [ok |-> FALSE, st |-> st]
  ELSE [ok |-> TRUE,
        st |-> [st EXCEPT !.pending = SelectSeq(@, LAMBDA c : c.group # g)]]

\* merge_pending_commit: advances the epoch of the group by one and clears its
\* pending commit; throws when the group has no pending commit.
merge_pending_commit(st, g) ==
  IF PendingOf(st, g) = <<>>
  THEN [ok |-> FALSE, st |-> st]
  ELSE [ok |-> TRUE,
        st |-> [st EXCEPT !.epoch[g] = @ + 1,
                          !.pending = SelectSeq(@, LAMBDA c : c.group # g)]]

\* ------------------------------------------------------ signalling relay
\* An envelope as NostrHandshake.send builds it.  Bob's key package is the
\* same in every offer (keyPackageStore is filled once), so it is not carried.
Envelope(type, from, welcome, gid) ==
  [type |-> type, from |-> from, welcome |-> welcome, groupIdHex |-> gid]

\* publishHandshake: the signed event reaches the relay and gets a fresh id
CanPublish == Len(events) < MaxEvents

Publish(env) == events' = Append(events, env)

\* a relay subscription that never drops a repeated event
IsDuplicateNever(r, id) == FALSE

\* onevent: this.seenIds.has(event.id)
IsDuplicate(r, id) == id \in seenIds[r]

\* onevent for a first delivery: the id is recorded and the handlers of the
\* payload's type are run.  Every handler returns at once on an envelope of
\* its own role (payload.from === role), so only the deliveries of an
\* envelope to the peer of its author are followed.
OnEvent(r, id, type) ==
  /\ id \in 1..Len(events)
  /\ events[id].from # r
  /\ events[id].type = type
  /\ ~IsDuplicate(r, id)
  /\ seenIds' = [seenIds EXCEPT ![r] = @ \cup {id}]
  /\ runs' = [runs EXCEPT ![r][id] = @ + 1]
  /\ UNCHANGED dupDropped

\* onevent for a repeated delivery: early return
DeliverDuplicate(r, id) ==
  /\ id \in 1..Len(events)
  /\ events[id].from # r
  /\ IsDuplicate(r, id)
  /\ dupDropped' = TRUE
  /\ UNCHANGED <<events, seenIds, runs>>
  /\ UNCHANGED <<aliceHsVars, bobHsVars, hsVars, mlsVars, moqVars, obsVars, chatVars, bridgeVars, hostVars>>

\* ------------------------------------------------------------ handshake
\* a completion guard that never holds
AlreadyCompleteNever(r) == FALSE

\* if (handshakeComplete ...) return;  at the head of handleAliceGroupCreation
\* and handleBobAcceptWelcome
AlreadyComplete(r) == handshakeComplete[r]

\* maybeFinishHandshake, reached with state.groupIdHex set: the flag is set,
\* both intervals are cleared and connectMoq() is started
MaybeFinishHandshake(r) ==
  /\ handshakeComplete' = [handshakeComplete EXCEPT ![r] = TRUE]
  /\ keyPackageInterval' = [keyPackageInterval EXCEPT ![r] = ClearInterval(@)]
  /\ welcomeInterval' = [welcomeInterval EXCEPT ![r] = ClearInterval(@)]
  /\ connectPending' = [connectPending EXCEPT ![r] = TRUE]

\* 'key-package' handler.  The creator clears its request interval, stores the
\* offer and runs handleAliceGroupCreation up to its await on the publish of
\* the welcome: create_group, state.groupIdHex, updateGroupMetadata,
\* sendWelcome(groupResp.welcome[0]).
DeliverKeyPackage(r, id) ==
  /\ OnEvent(r, id, "key-package")
  /\ IF r = "alice" /\ events[id].from = "bob"
     THEN /\ keyPackageInterval' = [keyPackageInterval EXCEPT !["alice"] = ClearInterval(@)]
          /\ keyPackageStore' = TRUE
          /\ IF AlreadyComplete("alice")
             THEN UNCHANGED <<events, groupIdHex, nextGroup, createGroupCalls, mls, aliceAwait>>
             ELSE /\ nextGroup <= MaxGroups
                  /\ CanPublish
                  /\ mls' = [mls EXCEPT !["alice"] = create_group(@, nextGroup)]
                  /\ createGroupCalls' = createGroupCalls + 1
                  /\ groupIdHex' = [groupIdHex EXCEPT !["alice"] = nextGroup]
                  /\ Publish(Envelope("welcome", "alice", nextGroup, nextGroup))
                  /\ nextGroup' = nextGroup + 1
                  /\ aliceAwait' = aliceAwait + 1
     ELSE UNCHANGED <<events, keyPackageInterval, keyPackageStore, groupIdHex,
                      nextGroup, createGroupCalls, mls, aliceAwait>>
  /\ UNCHANGED <<handshakeComplete, welcomeInterval, welcomeReplies, bobHsVars>>
  /\ UNCHANGED <<pendingPeak, mergeLog, commits, moqVars, obsVars, chatVars, bridgeVars, hostVars>>

\* handleAliceGroupCreation resumed after await sendWelcome: maybeFinishHandshake
AliceGroupCreationResume ==
  /\ aliceAwait > 0
  /\ aliceAwait' = aliceAwait - 1
  /\ MaybeFinishHandshake("alice")
  /\ UNCHANGED <<relayVars, keyPackageStore, nextGroup, createGroupCalls, welcomeReplies, groupIdHex>>
  /\ UNCHANGED <<bobHsVars, mlsVars, connected, outgoingTrack, waiting, track, readPos, obsVars, chatVars, bridgeVars, hostVars>>

\* 'request-welcome' handler.  With a group and an offer at hand the creator
\* runs sendWelcome() without a precomputed welcome: create_group is called
\* again and the welcome of the new group is published under state.groupIdHex.
DeliverRequestWelcome(r, id) ==
  /\ OnEvent(r, id, "request-welcome")
  /\ IF r = "alice" /\ events[id].from = "bob"
        /\ groupIdHex["alice"] # NoGroup /\ keyPackageStore
     THEN /\ nextGroup <= MaxGroups
          /\ CanPublish
          /\ mls' = [mls EXCEPT !["alice"] = create_group(@, nextGroup)]
          /\ createGroupCalls' = createGroupCalls + 1
          /\ Publish(Envelope("welcome", "alice", nextGroup, groupIdHex["alice"]))
          /\ welcomeReplies' = welcomeReplies \cup {nextGroup}
          /\ nextGroup' = nextGroup + 1
     ELSE UNCHANGED <<events, nextGroup, createGroupCalls, welcomeReplies, mls>>
  /\ UNCHANGED <<keyPackageStore, aliceAwait, hsVars, bobHsVars>>
  /\ UNCHANGED <<pendingPeak, mergeLog, commits, moqVars, obsVars, chatVars, bridgeVars, hostVars>>

\* sendBobKeyPackage: the stored offer is published
SendBobKeyPackage ==
  /\ CanPublish
  /\ Publish(Envelope("key-package", "bob", NoGroup, NoGroup))
  /\ postJoinPublishes' = postJoinPublishes + (IF handshakeComplete["bob"] THEN 1 ELSE 0)

\* 'request-key-package' handler: the invitee answers with sendBobKeyPackage
DeliverRequestKeyPackage(r, id) ==
  /\ OnEvent(r, id, "request-key-package")
  /\ IF r = "bob" /\ events[id].from # r
     THEN SendBobKeyPackage
     ELSE UNCHANGED <<events, postJoinPublishes>>
  /\ UNCHANGED <<aliceHsVars, hsVars, bobPc, acceptCalls, lateWelcomes>>
  /\ UNCHANGED <<mlsVars, moqVars, obsVars, chatVars, bridgeVars, hostVars>>

\* 'welcome' handler.  The invitee clears its request-welcome interval and
\* runs handleBobAcceptWelcome: accept_welcome, state.groupIdHex,
\* updateGroupMetadata, maybeFinishHandshake.  A throwing accept_welcome
\* leaves everything after the clearInterval undone.
DeliverWelcome(r, id) ==
  /\ OnEvent(r, id, "welcome")
  /\ IF r = "bob" /\ events[id].from = "alice"
     THEN LET w == events[id].welcome
              resp == accept_welcome(mls["bob"], w, mls["alice"].epoch[w])
          IN IF AlreadyComplete("bob")
             THEN /\ welcomeInterval' = [welcomeInterval EXCEPT !["bob"] = ClearInterval(@)]
                  /\ UNCHANGED <<groupIdHex, handshakeComplete, keyPackageInterval,
                                 connectPending, mls, acceptCalls>>
             ELSE IF ~resp.ok
             THEN /\ welcomeInterval' = [welcomeInterval EXCEPT !["bob"] = ClearInterval(@)]
                  /\ UNCHANGED <<groupIdHex, handshakeComplete, keyPackageInterval,
                                 connectPending, mls, acceptCalls>>
             ELSE /\ mls' = [mls EXCEPT !["bob"] = resp.st]
                  /\ acceptCalls' = acceptCalls + 1
                  /\ groupIdHex' = [groupIdHex EXCEPT !["bob"] =
                        IF resp.group_id_hex # NoGroup THEN resp.group_id_hex
                        ELSE events[id].groupIdHex]
                  /\ MaybeFinishHandshake("bob")
     ELSE UNCHANGED <<hsVars, connectPending, mls, acceptCalls>>
  /\ lateWelcomes' = lateWelcomes +
        (IF r = "bob" /\ events[id].from = "alice" /\ acceptCalls > 0 THEN 1 ELSE 0)
  /\ UNCHANGED <<events, aliceHsVars, bobPc, postJoinPublishes>>
  /\ UNCHANGED <<pendingPeak, mergeLog, commits, connected, outgoingTrack, waiting,
                 track, readPos, obsVars, chatVars, bridgeVars, hostVars>>

\* bob's main() resumed after await sendBobKeyPackage(): both intervals are set
BobStartIntervals ==
  /\ bobPc = "awaitPublish"
  /\ bobPc' = "running"
  /\ keyPackageInterval' = [keyPackageInterval EXCEPT !["bob"] = "active"]
  /\ welcomeInterval' = [welcomeInterval EXCEPT !["bob"] = "active"]
  /\ UNCHANGED <<relayVars, aliceHsVars, groupIdHex, handshakeComplete>>
  /\ UNCHANGED <<acceptCalls, lateWelcomes, postJoinPublishes>>
  /\ UNCHANGED <<mlsVars, moqVars, obsVars, chatVars, bridgeVars, hostVars>>

\* keyPackageInterval of the invitee fires: sendBobKeyPackage
BobKeyPackageTick ==
  /\ keyPackageInterval["bob"] = "active"
  /\ SendBobKeyPackage
  /\ UNCHANGED <<seenIds, runs, dupDropped, aliceHsVars, hsVars>>
  /\ UNCHANGED <<bobPc, acceptCalls, lateWelcomes>>
  /\ UNCHANGED <<mlsVars, moqVars, obsVars, chatVars, bridgeVars, hostVars>>

\* welcomeInterval of the invitee fires: a request-welcome is published
BobWelcomeTick ==
  /\ welcomeInterval["bob"] = "active"
  /\ CanPublish
  /\ Publish(Envelope("request-welcome", "bob", NoGroup, NoGroup))
  /\ postJoinPublishes' = postJoinPublishes + (IF handshakeComplete["bob"] THEN 1 ELSE 0)
  /\ UNCHANGED <<seenIds, runs, dupDropped, aliceHsVars, hsVars>>
  /\ UNCHANGED <<bobPc, acceptCalls, lateWelcomes>>
  /\ UNCHANGED <<mlsVars, moqVars, obsVars, chatVars, bridgeVars, hostVars>>

\* keyPackageInterval of the creator fires: a request-key-package is published
AliceKeyPackageTick ==
  /\ keyPackageInterval["alice"] = "active"
  /\ CanPublish
  /\ Publish(Envelope("request-key-package", "alice", NoGroup, NoGroup))
  /\ UNCHANGED <<seenIds, runs, dupDropped, aliceHsVars, hsVars, bobHsVars>>
  /\ UNCHANGED <<mlsVars, moqVars, obsVars, chatVars, bridgeVars, hostVars>>

\* ------------------------------------------------------- MoQ transport
\* connectMoq resumed after Connection.connect: the publisher is announced
\* and consumePeer is started
ConnectMoq(r) ==
  /\ connectPending[r]
  /\ connectPending' = [connectPending EXCEPT ![r] = FALSE]
  /\ connected' = [connected EXCEPT ![r] = TRUE]
  /\ UNCHANGED <<relayVars, aliceHsVars, bobHsVars, hsVars, mlsVars>>
  /\ UNCHANGED <<outgoingTrack, waiting, track, readPos, obsVars, chatVars, bridgeVars, hostVars>>

\* processOutgoingRequests: the peer's subscription requests the wrappers
\* track; state.outgoingTrack is set, outgoingDeferred is resolved and every
\* sendWrapper suspended on it writes its frame, in the order of the calls
TrackRequested(r) ==
  /\ connected[r] /\ connected[peerRole(r)]
  /\ ~outgoingTrack[r]
  /\ outgoingTrack' = [outgoingTrack EXCEPT ![r] = TRUE]
  /\ track' = [track EXCEPT ![r] = @ \o waiting[r]]
  /\ waiting' = [waiting EXCEPT ![r] = <<>>]
  /\ UNCHANGED <<relayVars, aliceHsVars, bobHsVars, hsVars, mlsVars>>
  /\ UNCHANGED <<connectPending, connected, readPos, obsVars, chatVars, bridgeVars, hostVars>>

\* sendWrapper: written to the live track, else suspended on outgoingDeferred
SendWrapper(r, bytes) ==
  IF outgoingTrack[r]
  THEN /\ track' = [track EXCEPT ![r] = Append(@, bytes)]
       /\ UNCHANGED waiting
  ELSE /\ waiting' = [waiting EXCEPT ![r] = Append(@, bytes)]
       /\ UNCHANGED track

\* ------------------------------------------------------ epoch handling
\* largest number of commits pending for one group
PeakOf(st) ==
  CHOOSE n \in 0..Len(st.pending) :
    /\ \A g \in Groups : Len(PendingOf(st, g)) <= n
    /\ n = 0 \/ \E g \in Groups : Len(PendingOf(st, g)) = n

\* a rotation that leaves its commit pending
RotateMlsNoMerge(st, g, r) ==
  LET su == self_update(st, g, r)
  IN [st |-> su.st, merged |-> FALSE, commit |-> su.commit, peak |-> PeakOf(su.st)]

\* rotateCommit, the MLS part: self_update, then ingest_wrapper and
\* merge_pending_commit of the own commit inside one try block
RotateMls(st, g, r) ==
  LET su == self_update(st, g, r)
      ing == ingest_wrapper(su.st, su.commit)
      mrg == merge_pending_commit(ing.st, g)
  IN [st |-> IF ing.ok THEN mrg.st ELSE ing.st,
      merged |-> ing.ok /\ mrg.ok,
      commit |-> su.commit,
      peak |-> PeakOf(su.st)]

\* rotateCommit: the commit is merged locally and handed to sendWrapper
RotateCommit(r) ==
  /\ groupIdHex[r] # NoGroup
  /\ mls[r].epoch[groupIdHex[r]] < MaxEpoch
  /\ LET g == groupIdHex[r]
         res == RotateMls(mls[r], g, r)
     IN /\ mls' = [mls EXCEPT ![r] = res.st]
        /\ pendingPeak' = [pendingPeak EXCEPT ![r] = Max(@, res.peak)]
        /\ mergeLog' = [mergeLog EXCEPT ![r] =
              IF res.merged THEN Append(@, <<g, res.st.epoch[g]>>) ELSE @]
        /\ SendWrapper(r, res.commit)
  /\ UNCHANGED <<relayVars, aliceHsVars, bobHsVars, hsVars, commits>>
  /\ UNCHANGED <<connectPending, connected, outgoingTrack, readPos, obsVars, chatVars, bridgeVars, hostVars>>

\* handleWrapper, the MLS part: ingest_wrapper; an application message is
\* handed to appendMessage; for a commit merge_pending_commit(state.groupIdHex)
\* and commits += 1; a throw ends the handler where it is raised, the catch
\* logs it and the frame is gone
HandleWrapperMls(st, frame, gid) ==
  LET ing == ingest_wrapper(st, frame)
      mrg == merge_pending_commit(ing.st, gid)
  IN IF ~ing.ok
     THEN [st |-> ing.st, merged |-> FALSE, counted |-> FALSE, peak |-> PeakOf(ing.st),
           message |-> FALSE, lost |-> ing.transient]
     ELSE IF ing.kind = "application"
     THEN [st |-> ing.st, merged |-> FALSE, counted |-> FALSE, peak |-> PeakOf(ing.st),
           message |-> TRUE, lost |-> FALSE]
     ELSE IF gid # NoGroup
     THEN [st |-> mrg.st, merged |-> mrg.ok, counted |-> mrg.ok, peak |-> PeakOf(ing.st),
           message |-> FALSE, lost |-> FALSE]
     ELSE [st |-> ing.st, merged |-> FALSE, counted |-> TRUE, peak |-> PeakOf(ing.st),
           message |-> FALSE, lost |-> FALSE]

\* appendMessage: local is message.author === state.identityPub
AppendMessage(r, author, seq) ==
  messages' = [messages EXCEPT ![r] = Append(@, <<author, seq, author = r>>)]

\* sendMessage: throws without a group; create_message, the local echo through
\* appendMessage, then sendWrapper
SendMessage(r) ==
  /\ groupIdHex[r] # NoGroup
  /\ sent["alice"] + sent["bob"] < MaxMessages
  /\ LET bytes == create_message(mls[r], groupIdHex[r], r, sent[r] + 1)
     IN /\ AppendMessage(r, r, sent[r] + 1)
        /\ SendWrapper(r, bytes)
  /\ sent' = [sent EXCEPT ![r] = @ + 1]
  /\ UNCHANGED <<relayVars, aliceHsVars, bobHsVars, hsVars, mlsVars>>
  /\ UNCHANGED <<connectPending, connected, outgoingTrack, readPos, obsVars, inboundDropped, bridgeVars, hostVars>>

\* readTrack: the next frame of the peer's track is handed to handleWrapper
ReadFrame(r) ==
  /\ connected[r]
  /\ readPos[r] < Len(track[peerRole(r)])
  /\ LET frame == track[peerRole(r)][readPos[r] + 1]
         g == groupIdHex[r]
         res == HandleWrapperMls(mls[r], frame, g)
     IN /\ mls' = [mls EXCEPT ![r] = res.st]
        /\ pendingPeak' = [pendingPeak EXCEPT ![r] = Max(@, res.peak)]
        /\ mergeLog' = [mergeLog EXCEPT ![r] =
              IF res.merged THEN Append(@, <<g, res.st.epoch[g]>>) ELSE @]
        /\ commits' = [commits EXCEPT ![r] = IF res.counted THEN @ + 1 ELSE @]
        /\ IF res.message
           THEN AppendMessage(r, frame.author, frame.seq)
           ELSE UNCHANGED messages
        /\ inboundDropped' = [inboundDropped EXCEPT ![r] =
              IF res.lost THEN @ \cup {readPos[r] + 1} ELSE @]
  /\ readPos' = [readPos EXCEPT ![r] = @ + 1]
  /\ UNCHANGED <<relayVars, aliceHsVars, bobHsVars, hsVars>>
  /\ UNCHANGED <<connectPending, connected, outgoingTrack, waiting, track, obsVars, sent, bridgeVars, hostVars>>

\* ----------------------------------------------- transport bridge (moq.ts)
\* a ready callback without the readyCalled guard
callOnReadyUnguarded ==
  /\ readyCalled' = TRUE
  /\ readyCalls' = readyCalls + 1

\* callOnReady: callbacks.onReady() unless readyCalled
callOnReady ==
  /\ readyCalled' = TRUE
  /\ readyCalls' = IF readyCalled THEN readyCalls ELSE readyCalls + 1

\* the messages of the errors the transport throws
ErrorMessages == {"RESET_STREAM", "track not found", "connection closed"}

\* an isTransient that holds no error to be transient
isTransientNever(message) == FALSE

\* isTransient: the message matches /reset_stream/i or /not found/i
isTransient(message) == message \in {"RESET_STREAM", "track not found"}

\* the wait before the next attempt, doubling from one second up to ten
retryDelayDoubling(fails) ==
  IF fails >= 5 THEN 10000 ELSE 1000 * (2 ^ (fails - 1))

\* the wait before the next attempt: setTimeout(resolve, 1000)
retryDelay(fails) == 1000

\* callbacks.onError(err) is called by the loop named from
onError(message, from) ==
  reported \cup {[message |-> message, from |-> from, late |-> closed]}

\* a consumePeerTrack run that has just subscribed; waited is the wait that
\* went before its latest subscription, -1 before the first one
NewLoop(peer) ==
  [peer |-> peer, pos |-> 0, got |-> <<>>, st |-> "reading", fails |-> 0, delay |-> 0,
   waited |-> -1]

\* consumePeerTrack(peerPubkey) is started: with closed set its while loop is
\* not entered
StartLoops(loops, peers) ==
  IF closed THEN loops
  ELSE LET RECURSIVE add(_, _)
           add(q, ps) == IF ps = {} THEN q
                         ELSE LET x == CHOOSE x \in ps : TRUE
                              IN add(Append(q, NewLoop(x)), ps \ {x})
       IN add(loops, peers)

\* connect(), from the resolution of Connection.connect to the return of the
\* handle: the publisher is announced, acquireTrack waits for a request, one
\* consumePeerTrack is started per entry of peerPubkeys other than pubkey and
\* the grace timer is set.  The controller hands in its roster as peerPubkeys
\* and holds the peers as subscribed.
Connect(peerPubkeys) ==
  /\ bridgePc = "idle"
  /\ bridgePc' = "connected"
  /\ consumeLoops' = StartLoops(consumeLoops, {x \in peerPubkeys : x # Pubkey})
  /\ graceTimer' = "armed"
  /\ roster' = peerPubkeys \cup {Pubkey}
  /\ subscribedPeers' = peerPubkeys \ {Pubkey}
  /\ UNCHANGED <<closed, publishVars, readyCalled, readyCalls, accepted, lateReady,
                 peerTrack, consumeErrors, reported, addedPeers>>
  /\ UNCHANGED mainVars

\* a flush that writes nothing
flushPendingPublishNone(t, pending, log) ==
  [pending |-> <<>>, written |-> log]

\* flushPendingPublish: every queued frame is shifted out and written to
\* currentTrack, oldest first
flushPendingPublish(t, pending, log) ==
  [pending |-> <<>>,
   written |-> log \o [i \in 1..Len(pending) |-> <<t, pending[i], TRUE>>]]

\* publish(data): written to currentTrack, else pushed onto pendingPublish
publish(t, pending, log, data) ==
  IF t # NoTrack
  THEN [pending |-> pending, written |-> Append(log, <<t, data, FALSE>>)]
  ELSE [pending |-> Append(pending, data), written |-> log]

RECURSIVE onReady(_, _, _, _, _)
\* callbacks.onReady(): the host publishes the k frames it held back,
\* numbered from first + 1
onReady(t, pending, log, first, k) ==
  IF k = 0 THEN [pending |-> pending, written |-> log]
  ELSE LET q == publish(t, pending, log, first + 1)
       IN onReady(t, q.pending, q.written, first + 1, k - 1)

\* the handle's publish is called
BridgePublish ==
  /\ bridgePc = "connected"
  /\ published < MaxFrames
  /\ published' = published + 1
  /\ LET q == publish(currentTrack, pendingPublish, written, published + 1)
     IN /\ pendingPublish' = q.pending
        /\ written' = q.written
  /\ UNCHANGED <<bridgePc, closed, currentTrack, acquirePc, trackRequests>>
  /\ UNCHANGED <<readyVars, consumeVars, controllerVars, mainVars>>

\* acquireTrack: publisher.requested() hands out a request for the wrappers
\* track; currentTrack is set, callOnReady and flushPendingPublish run and the
\* loop waits for track.closed
AcquireTrack(k) ==
  /\ bridgePc = "connected" /\ ~closed
  /\ acquirePc = "requested"
  /\ trackRequests < MaxTracks
  /\ k <= MaxFrames - published
  /\ readyCalled => k = 0
  /\ LET t == trackRequests + 1
         q == onReady(t, pendingPublish, written, published, k)
         fl == flushPendingPublish(t, q.pending, q.written)
     IN /\ trackRequests' = t
        /\ currentTrack' = t
        /\ pendingPublish' = fl.pending
        /\ written' = fl.written
  /\ published' = published + k
  /\ callOnReady
  /\ accepted' = TRUE
  /\ acquirePc' = "open"
  /\ UNCHANGED <<bridgePc, closed, graceTimer, lateReady>>
  /\ UNCHANGED <<consumeVars, controllerVars, mainVars>>

\* acquireTrack: a request for a track of another name is closed and the
\* loop continues
AcquireOtherTrack ==
  /\ bridgePc = "connected" /\ ~closed
  /\ acquirePc = "requested"
  /\ trackRequests < MaxTracks
  /\ trackRequests' = trackRequests + 1
  /\ UNCHANGED <<bridgePc, closed, currentTrack, acquirePc, pendingPublish, published, written>>
  /\ UNCHANGED <<readyVars, consumeVars, controllerVars, mainVars>>

\* acquireTrack resumed after track.closed: currentTrack is reset
TrackClosed ==
  /\ acquirePc = "open"
  /\ acquirePc' = "requested"
  /\ currentTrack' = NoTrack
  /\ UNCHANGED <<bridgePc, closed, trackRequests, pendingPublish, published, written>>
  /\ UNCHANGED <<readyVars, consumeVars, controllerVars, mainVars>>

\* acquireTrack resumed by the rejection of track.closed: callbacks.onError
\* is called with the error and currentTrack is reset
TrackClosedWithError(message) ==
  /\ acquirePc = "open"
  /\ acquirePc' = "requested"
  /\ currentTrack' = NoTrack
  /\ reported' = onError(message, "acquire")
  /\ UNCHANGED <<bridgePc, closed, trackRequests, pendingPublish, published, written>>
  /\ UNCHANGED <<readyVars, consumeLoops, peerTrack, consumeErrors, controllerVars, mainVars>>

\* setTimeout(() => callOnReady(), 100) fires
GraceTimer(k) ==
  /\ graceTimer = "armed"
  /\ graceTimer' = "fired"
  /\ k <= MaxFrames - published
  /\ readyCalled => k = 0
  /\ LET q == onReady(currentTrack, pendingPublish, written, published, k)
     IN /\ pendingPublish' = q.pending
        /\ written' = q.written
  /\ published' = published + k
  /\ callOnReady
  /\ lateReady' = (lateReady \/ (closed /\ ~readyCalled))
  /\ UNCHANGED <<bridgePc, closed, currentTrack, acquirePc, trackRequests, accepted>>
  /\ UNCHANGED <<consumeVars, controllerVars, mainVars>>

\* a subscribeToPeer that starts nothing
subscribeToPeerNoop(loops, peerPubkey) == loops

\* subscribeToPeer(peerPubkey): consumePeerTrack is started for every key
\* other than the bridge's own
subscribeToPeer(loops, peerPubkey) ==
  IF peerPubkey # Pubkey THEN StartLoops(loops, {peerPubkey}) ELSE loops

\* the handle's subscribeToPeer is called
SubscribeToPeer(p) ==
  /\ bridgePc = "connected"
  /\ Len(consumeLoops) < MaxLoops
  /\ consumeLoops' = subscribeToPeer(consumeLoops, p)
  /\ UNCHANGED <<bridgePc, closed, publishVars, readyVars, peerTrack, consumeErrors,
                 reported, controllerVars, mainVars>>

\* a reader that hands out the frames of the track newest first
readFrameNewestFirst(loop) == peerTrack[loop.peer] - loop.pos

\* track.readFrame(): the frame after the last one read
readFrame(loop) == loop.pos + 1

\* consumePeerTrack: readFrame resolves with a frame, callbacks.onFrame(frame)
ConsumeFrame(i) ==
  /\ i \in 1..Len(consumeLoops)
  /\ ~closed
  /\ consumeLoops[i].st = "reading"
  /\ consumeLoops[i].pos < peerTrack[consumeLoops[i].peer]
  /\ consumeLoops' = [consumeLoops EXCEPT ![i].pos = @ + 1,
                                          ![i].got = Append(@, readFrame(consumeLoops[i])),
                                          ![i].fails = 0]
  /\ UNCHANGED <<bridgePc, closed, publishVars, readyVars, peerTrack, consumeErrors,
                 reported, controllerVars, mainVars>>

\* consumePeerTrack: consume, subscribe or readFrame throws; callbacks.onError
\* is called unless the error is transient, and the loop waits
ConsumeError(i, message) ==
  /\ i \in 1..Len(consumeLoops)
  /\ consumeLoops[i].st = "reading"
  /\ consumeErrors < MaxErrors
  /\ consumeErrors' = consumeErrors + 1
  /\ reported' = IF isTransient(message) THEN reported ELSE onError(message, "consume")
  /\ LET fails == IF message \in {"RESET_STREAM", "track not found"}
                  THEN consumeLoops[i].fails + 1 ELSE 0
     IN consumeLoops' = [consumeLoops EXCEPT ![i].st = "backoff",
                                             ![i].fails = fails,
                                             ![i].delay = retryDelay(fails)]
  /\ UNCHANGED <<bridgePc, closed, publishVars, readyVars, peerTrack, controllerVars, mainVars>>

\* where a new subscription may start: the relay serves the track from its
\* newest frame, so never from before the last frame the loop handed over
ResumePoints(loop) ==
  (IF loop.got # <<>> THEN loop.got[Len(loop.got)] - 1 ELSE 0)..peerTrack[loop.peer]

\* consumePeerTrack after the wait: the loop ends if closed, else it
\* consumes and subscribes again
ConsumeRetry(i, from) ==
  /\ i \in 1..Len(consumeLoops)
  /\ consumeLoops[i].st = "backoff"
  /\ from \in ResumePoints(consumeLoops[i])
  /\ consumeLoops' = IF closed
                      THEN [consumeLoops EXCEPT ![i].st = "ended", ![i].delay = 0]
                      ELSE [consumeLoops EXCEPT ![i].st = "reading", ![i].pos = from,
                                                ![i].delay = 0,
                                                ![i].waited = consumeLoops[i].delay]
  /\ UNCHANGED <<bridgePc, closed, publishVars, readyVars, peerTrack, consumeErrors,
                 reported, controllerVars, mainVars>>

\* consumePeerTrack: readFrame resolves with no frame, the track has
\* finished; the inner loop is left and, unless closed is set, the while loop
\* consumes and subscribes again
ConsumeEnd(i, from) ==
  /\ i \in 1..Len(consumeLoops)
  /\ consumeLoops[i].st = "reading"
  /\ from \in ResumePoints(consumeLoops[i])
  /\ consumeErrors < MaxErrors
  /\ consumeErrors' = consumeErrors + 1
  /\ consumeLoops' = IF closed
                      THEN [consumeLoops EXCEPT ![i].st = "ended"]
                      ELSE [consumeLoops EXCEPT ![i].pos = from, ![i].waited = 0]
  /\ UNCHANGED <<bridgePc, closed, publishVars, readyVars, peerTrack, reported,
                 controllerVars, mainVars>>

FramesWritten == peerTrack["p1"] + peerTrack["p2"]

\* a peer writes a frame to its wrappers track
PeerWrite(p) ==
  /\ FramesWritten < MaxFrames
  /\ peerTrack' = [peerTrack EXCEPT ![p] = @ + 1]
  /\ UNCHANGED <<bridgePc, closed, publishVars, readyVars, consumeLoops, consumeErrors,
                 reported, controllerVars, mainVars>>

\* close(): closed is set, the connection is closed, callbacks.onClosed()
Close ==
  /\ bridgePc = "connected"
  /\ ~closed
  /\ closed' = TRUE
  /\ UNCHANGED <<bridgePc, publishVars, readyVars, consumeVars, controllerVars, mainVars>>

\* ------------------------------------------- controller (section 4.4)
RECURSIVE SubscribeAll(_, _)
\* the bridge's subscribeToPeer called once for each of the peers
SubscribeAll(loops, peers) ==
  IF peers = {} THEN loops
  ELSE LET x == CHOOSE y \in peers : TRUE
       IN SubscribeAll(subscribeToPeer(loops, x), peers \ {x})

\* roster policy: on every roster read the controller subscribes to each
\* peer that is not yet in its subscription set
SyncSubscriptions(loops, subs, rosterRead) ==
  LET new == (rosterRead \ {Pubkey}) \ subs
  IN [loops |-> SubscribeAll(loops, new), subs |-> subs \cup new]

\* a commit that adds P is merged and the roster is read again; how is
\* "invite" for a commit built locally and "ingest" for one read from a peer
HandleMemberAddition(P, how) ==
  /\ bridgePc = "connected" /\ ~closed
  /\ P \in Peers \ roster
  /\ Len(consumeLoops) < MaxLoops
  /\ LET sync == SyncSubscriptions(consumeLoops, subscribedPeers, roster \cup {P})
     IN /\ consumeLoops' = sync.loops
        /\ subscribedPeers' = sync.subs
  /\ roster' = roster \cup {P}
  /\ addedPeers' = addedPeers \cup {<<P, how>>}
  /\ UNCHANGED <<bridgePc, closed, publishVars, readyVars, peerTrack, consumeErrors,
                 reported, mainVars>>

\* InviteMember: the commit is built and merged locally
InviteMember(P) == HandleMemberAddition(P, "invite")

\* IngestFrame with a Commit outcome that adds P
IngestAddCommit(P) == HandleMemberAddition(P, "ingest")

\* ------------------------------------------------------------ ChatView
NoError == [message |-> "", fatal |-> FALSE]
UiTimeout == 5
UiMessages == {"m1", "m2"}
Buttons == {"send", "rotate", "audio"}

\* eventHandler, case 'error': fatal unless the event's flag is false
eventFatal(event) == event.fatal # FALSE

\* the createEffect on props.session: stopController, the signals are
\* reset and startChat is called
SessionEffect ==
  /\ engine # "starting"
  /\ engine' = "starting"
  /\ controller' = FALSE
  /\ ready' = FALSE
  /\ currentError' = NoError
  /\ fatalSurfaced' = FALSE
  /\ opsAfterFatal' = {}
  /\ UNCHANGED <<dismissTimers, uiNow, shownAt, lastDismiss, notUiVars>>

\* startChat resolves: WasmChatController.start has run, controller = handle
StartChatResolved ==
  /\ engine = "starting"
  /\ engine' = "running"
  /\ controller' = TRUE
  /\ UNCHANGED <<ready, currentError, dismissTimers, uiNow, shownAt, lastDismiss,
                 fatalSurfaced, opsAfterFatal, notUiVars>>

\* eventHandler, case 'ready': clearError and setReady
EventReady(value) ==
  /\ engine = "running"
  /\ currentError' = NoError
  /\ lastDismiss' = IF currentError # NoError THEN "ready" ELSE lastDismiss
  /\ ready' = value
  /\ UNCHANGED <<engine, controller, dismissTimers, uiNow, shownAt, fatalSurfaced,
                 opsAfterFatal, notUiVars>>

\* an eventHandler that leaves the ready signal alone
readyAfterErrorKept(value, fatal) == value

\* eventHandler, case 'error': if (fatal) callbacks.setReady(false)
readyAfterError(value, fatal) == IF fatal THEN FALSE ELSE value

\* a timer callback that never finds its error
dismissMatchesNever(cur, message) == FALSE

\* the test of the auto-dismiss timer: the error shown has the timer's
\* message and is not fatal
dismissMatches(cur, message) ==
  cur # NoError /\ cur.message = message /\ ~cur.fatal

\* callbacks.showError: the error is shown; a non-fatal one sets a timer
showError(message, fatal) ==
  /\ currentError' = [message |-> message, fatal |-> fatal]
  /\ shownAt' = uiNow
  /\ dismissTimers' = IF fatal THEN dismissTimers
                      ELSE dismissTimers \cup {[message |-> message, due |-> uiNow + UiTimeout]}

\* eventHandler, case 'error'; a controller that has emitted a fatal error
\* stays stopped
EventError(message, flag) ==
  /\ engine = "running"
  /\ LET fatal == eventFatal([fatal |-> flag])
     IN /\ showError(message, fatal)
        /\ ready' = readyAfterError(ready, fatal)
        /\ fatalSurfaced' = (fatalSurfaced \/ fatal)
        /\ engine' = IF flag THEN "stopped" ELSE engine
  /\ UNCHANGED <<controller, uiNow, lastDismiss, opsAfterFatal, notUiVars>>

\* dismissError: the banner's dismiss button is clicked
DismissError ==
  /\ currentError # NoError
  /\ currentError' = NoError
  /\ lastDismiss' = "user"
  /\ UNCHANGED <<engine, controller, ready, dismissTimers, uiNow, shownAt,
                 fatalSurfaced, opsAfterFatal, notUiVars>>

\* the callback of an auto-dismiss timer runs
AutoDismiss(t) ==
  /\ t \in dismissTimers
  /\ t.due <= uiNow
  /\ dismissTimers' = dismissTimers \ {t}
  /\ IF dismissMatches(currentError, t.message)
     THEN currentError' = NoError /\ lastDismiss' = "timer"
     ELSE UNCHANGED <<currentError, lastDismiss>>
  /\ UNCHANGED <<engine, controller, ready, uiNow, shownAt, fatalSurfaced,
                 opsAfterFatal, notUiVars>>

\* a second passes; a timer that is due runs first
UiTick ==
  /\ uiNow < MaxTime
  /\ \A t \in dismissTimers : t.due > uiNow
  /\ uiNow' = uiNow + 1
  /\ UNCHANGED <<engine, controller, ready, currentError, dismissTimers, shownAt,
                 lastDismiss, fatalSurfaced, opsAfterFatal, notUiVars>>

\* the disabled attribute of the send, rotate and audio buttons
ButtonEnabled == ready /\ ~currentError.fatal

\* handleSubmit, handleRotate, handleAudioToggle: a button that is enabled
\* is clicked and the handler calls the controller
Click(b) ==
  /\ ButtonEnabled
  /\ controller
  /\ opsAfterFatal' = IF fatalSurfaced THEN opsAfterFatal \cup {b} ELSE opsAfterFatal
  /\ UNCHANGED <<engine, controller, ready, currentError, dismissTimers, uiNow, shownAt,
                 lastDismiss, fatalSurfaced, notUiVars>>

\* --------------------------------------------------------------- audio
Parties == {"tx", "rx"}
\* pubkeys as <<first eight characters, rest>>
AudioPubkeys == {<<"aaaaaaaa", "1">>, <<"aaaaaaaa", "2">>}
SenderPubkey == <<"aaaaaaaa", "1">>
\* group roots as sequences of characters
GroupRoots == {<<"marmot/", "g1">>, <<"marmot/", "g2">>}
NoKey == [root |-> <<>>, sender |-> <<>>, label |-> <<>>, epoch |-> 0]
TxOff == [on |-> FALSE, session |-> 0, root |-> <<>>, epoch |-> 0, key |-> NoKey]
RxOff == [on |-> FALSE, root |-> <<>>, epoch |-> 0,
          peerBaseKeys |-> [p \in AudioPubkeys |-> NoKey]]

\* an onPeerAudio run: was the frame delivered on the track and under the
\* group root it was published on, was it encrypted under the epoch that
\* sender and receiver are both in, was it played, and if so was the
\* plaintext played the one the sender encrypted
NoRx == [ran |-> FALSE, sameTrack |-> FALSE, sameRoot |-> FALSE, sameLabel |-> FALSE,
         current |-> FALSE, played |-> FALSE, intact |-> FALSE]

\* `audio-${pubkey.slice(0, 8)}`
trackLabelOf(pubkey) == <<"audio-", pubkey[1]>>

\* derive_media_base_key: the exporter of the group at its current epoch
\* over the sender's leaf and the track label
deriveMediaBaseKey(root, epoch, senderPubkey, trackLabel) ==
  [root |-> root, sender |-> senderPubkey, label |-> trackLabel, epoch |-> epoch]

\* an AAD without the frame index
buildAADNoFrameIdx(moqRoot, epoch, trackLabelForAAD, groupSeq, frameIdx, isKeyframe) ==
  <<1>> \o moqRoot \o trackLabelForAAD \o <<epoch, groupSeq, IF isKeyframe THEN 1 ELSE 0>>

\* buildAAD: the bytes of version, group root, track label, epoch, group
\* sequence, frame index and keyframe flag one after the other (the numbers
\* fill eight bytes each and stay far below 2^64 here)
buildAAD(moqRoot, epoch, trackLabelForAAD, groupSeq, frameIdx, isKeyframe) ==
  <<1>> \o moqRoot \o trackLabelForAAD \o
  <<epoch, groupSeq, frameIdx, IF isKeyframe THEN 1 ELSE 0>>

\* encrypt_audio_frame(base, plaintext, counter, aad)
encryptAudioFrame(baseKey, plaintext, counter, aad) ==
  [key |-> baseKey, counter |-> counter, aad |-> aad, plaintext |-> plaintext]

\* the group commits and the party merges it: its epoch advances
AdvanceEpoch(p) ==
  /\ epochNow[p] < MaxEpoch
  /\ epochNow' = [epochNow EXCEPT ![p] = @ + 1]
  /\ UNCHANGED <<txVars, rxVars, notAudioVars>>

\* handleAudioToggle with audio off, at the sender: groupRoot, currentEpoch
\* and deriveMediaBaseKey are read once, frameCounter starts at 0
StartAudio(root) ==
  /\ ~tx.on
  /\ starts < MaxStarts
  /\ starts' = starts + 1
  /\ tx' = [on |-> TRUE, session |-> starts + 1, root |-> root, epoch |-> epochNow["tx"],
            key |-> deriveMediaBaseKey(root, epochNow["tx"], SenderPubkey,
                                       trackLabelOf(SenderPubkey))]
  /\ frameCounter' = [frameCounter EXCEPT ![starts + 1] = 0]
  /\ UNCHANGED <<epochNow, chunks, inflight, audioTrack, rxVars, notAudioVars>>

\* handleAudioToggle with audio on: stopAudio
StopAudio ==
  /\ tx.on
  /\ tx' = [tx EXCEPT !.on = FALSE]
  /\ UNCHANGED <<epochNow, starts, frameCounter, chunks, inflight, audioTrack, rxVars,
                 notAudioVars>>

\* onChunk up to its await: frameCounter is read, the AAD is built and
\* controller.encryptAudioFrame is called
ChunkStart ==
  /\ tx.on
  /\ chunks < MaxFrames
  /\ chunks' = chunks + 1
  /\ LET counter == frameCounter[tx.session]
         aad == buildAAD(tx.root, tx.epoch, trackLabelOf(SenderPubkey), 0, counter,
                         counter = 0)
         ct == encryptAudioFrame(tx.key, chunks + 1, counter, aad)
     IN inflight' = inflight \cup {[session |-> tx.session, counter |-> counter, ct |-> ct]}
  /\ UNCHANGED <<epochNow, tx, starts, frameCounter, audioTrack, rxVars, notAudioVars>>

\* frameCounter++
nextFrameCounter(counter) == counter + 1

\* the counter written before the ciphertext: frameCounter as it is when
\* the onChunk call resumes
prefixOf(x) == frameCounter[x.session]

\* onChunk resumed with the ciphertext of chunk n: the counter is written in
\* four bytes before it (it stays far below 2^32 here), the payload is
\* published and frameCounter is advanced
ChunkDone(n) ==
  /\ \E x \in inflight : x.ct.plaintext = n
  /\ LET x == CHOOSE y \in inflight : y.ct.plaintext = n
     IN /\ inflight' = inflight \ {x}
        /\ audioTrack' = Append(audioTrack, [session |-> x.session, counter |-> prefixOf(x),
                                             ct |-> x.ct])
        /\ frameCounter' = [frameCounter EXCEPT ![x.session] = nextFrameCounter(@)]
  /\ UNCHANGED <<epochNow, tx, starts, chunks, rxVars, notAudioVars>>

\* handleAudioToggle with audio off, at the receiver: groupRoot and
\* currentEpoch are read once, peerBaseKeys starts empty
StartListening(root) ==
  /\ ~rx.on
  /\ rx' = [on |-> TRUE, root |-> root, epoch |-> epochNow["rx"],
            peerBaseKeys |-> [p \in AudioPubkeys |-> NoKey]]
  /\ UNCHANGED <<epochNow, txVars, lastRx, notAudioVars>>

\* handleAudioToggle with audio on, at the receiver: stopAudio
StopListening ==
  /\ rx.on
  /\ rx' = RxOff
  /\ UNCHANGED <<epochNow, txVars, lastRx, notAudioVars>>

\* decrypt_audio_frame(base, ciphertext, counter, aad): authenticated
\* decryption, the plaintext if key, counter and AAD are those of the
\* encryption
decryptAudioFrame(baseKey, ciphertext, counter, aad) ==
  IF ciphertext.key = baseKey /\ ciphertext.counter = counter /\ ciphertext.aad = aad
  THEN [ok |-> TRUE, plaintext |-> ciphertext.plaintext]
  ELSE [ok |-> FALSE, plaintext |-> 0]

\* a frame handed to playback whatever decryptAudioFrame did
playsFrameAlways(result) == TRUE

\* playback.play is reached only when decryptAudioFrame did not throw
playsFrame(result) == result.ok

\* onPeerAudio(peerPubkey, data) with frame k of the audio track as data:
\* the peer's base key is derived on its first frame and kept, the counter
\* is read from the first four bytes, the AAD is built from the peer's track
\* label and the closure's group root and epoch
OnPeerAudio(peerPubkey, k) ==
  /\ rx.on
  /\ k \in 1..Len(audioTrack)
  /\ LET peerKey == IF rx.peerBaseKeys[peerPubkey] = NoKey
                    THEN deriveMediaBaseKey(rx.root, epochNow["rx"], peerPubkey,
                                            trackLabelOf(peerPubkey))
                    ELSE rx.peerBaseKeys[peerPubkey]
         peerFrameCounter == audioTrack[k].counter
         aad == buildAAD(rx.root, rx.epoch, trackLabelOf(peerPubkey), 0,
                         peerFrameCounter, peerFrameCounter = 0)
         result == decryptAudioFrame(peerKey, audioTrack[k].ct, peerFrameCounter, aad)
     IN /\ rx' = [rx EXCEPT !.peerBaseKeys[peerPubkey] = peerKey]
        /\ lastRx' = [ran |-> TRUE,
                      sameTrack |-> peerPubkey = audioTrack[k].ct.key.sender,
                      sameRoot |-> rx.root = audioTrack[k].ct.key.root,
                      sameLabel |-> trackLabelOf(peerPubkey) = audioTrack[k].ct.key.label,
                      current |-> /\ epochNow["rx"] = epochNow["tx"]
                                  /\ audioTrack[k].ct.key.epoch = epochNow["tx"],
                      played |-> playsFrame(result),
                      intact |-> result.ok /\ result.plaintext = audioTrack[k].ct.plaintext]
  /\ UNCHANGED <<epochNow, txVars, notAudioVars>>

\* ----------------------------------------------- roster and audio toggle
\* the pubkeys of the group: the view's own and two peers, one of which
\* shares its first eight characters
ViewPubkeys == AudioPubkeys \cup {<<"bbbbbbbb", "1">>}
ViewRoot == <<"marmot/", "g1">>
ChatMembers == [pubkey : ViewPubkeys, isAdmin : BOOLEAN]

\* the member lists of the controller's roster events: no pubkey twice
Rosters ==
  {list \in UNION {[1..n -> ChatMembers] : n \in 0..Cardinality(ViewPubkeys)} :
     \A i, j \in DOMAIN list : list[i].pubkey = list[j].pubkey => i = j}

\* callbacks.setRoster: a copy of the list
setRoster(list) == list

\* an upsertMember that always appends
upsertMemberAppend(current, member) == Append(current, member)

\* callbacks.upsertMember: the entry with that pubkey is replaced, or the
\* member is appended
upsertMember(current, member) ==
  IF \E i \in DOMAIN current : current[i].pubkey = member.pubkey
  THEN [i \in DOMAIN current |->
          IF current[i].pubkey = member.pubkey THEN member ELSE current[i]]
  ELSE Append(current, member)

\* callbacks.removeMember: current.filter(member.pubkey !== pubkey)
removeMember(current, pubkey) == SelectSeq(current, LAMBDA m : m.pubkey # pubkey)

\* eventHandler, case 'roster'
EventRoster(list) ==
  /\ members' = setRoster(list)
  /\ lastMemberEvent' = "roster"
  /\ UNCHANGED <<audioEnabled, audioMoq, audioCapture, toggles, toggleCount, bridges,
                 captures, notViewVars>>

\* eventHandler, cases 'member_joined' and 'member_updated'
EventMemberUpsert(member) ==
  /\ members' = upsertMember(members, member)
  /\ lastMemberEvent' = IF \E i \in DOMAIN members : members[i].pubkey = member.pubkey
                        THEN "member_updated" ELSE "member_joined"
  /\ UNCHANGED <<audioEnabled, audioMoq, audioCapture, toggles, toggleCount, bridges,
                 captures, notViewVars>>

\* eventHandler, case 'member_left'
EventMemberLeft(pubkey) ==
  /\ members' = removeMember(members, pubkey)
  /\ lastMemberEvent' = "member_left"
  /\ UNCHANGED <<audioEnabled, audioMoq, audioCapture, toggles, toggleCount, bridges,
                 captures, notViewVars>>

\* the broadcast path and track name on which the bridge of myPubkey
\* publishes: moqRoot/audio/myPubkey/trackLabel, track name trackLabel
publishTrack(moqRoot, myPubkey, trackLabel) ==
  [path |-> <<moqRoot, "audio", myPubkey, trackLabel>>, name |-> trackLabel]

\* consumePeerAudio: the path and track name the bridge consumes for
\* peerPubkey, built from the bridge's own config.trackLabel
subscribeTrack(moqRoot, trackLabel, peerPubkey) ==
  [path |-> <<moqRoot, "audio", peerPubkey, trackLabel>>, name |-> trackLabel]

\* subscribeToPeerAudio for the peers in the list, in a bridge of the view
subscribeKnownPeers(list) ==
  {[peer |-> list[i].pubkey,
    track |-> subscribeTrack(ViewRoot, trackLabelOf(SenderPubkey), list[i].pubkey)] :
     i \in {j \in DOMAIN list : list[j].pubkey # SenderPubkey}}

\* stopAudio: audioCapture is stopped, audioMoq is closed, both variables
\* are cleared and audioEnabled is set to false
stopAudio ==
  /\ captures' = {c \in captures : c # audioCapture}
  /\ bridges' = {b \in bridges : b.id # audioMoq}
  /\ audioCapture' = 0
  /\ audioMoq' = 0
  /\ audioEnabled' = FALSE

\* handleAudioToggle while audioEnabled() is true
ToggleOff ==
  /\ audioEnabled
  /\ stopAudio
  /\ UNCHANGED <<members, lastMemberEvent, toggles, toggleCount, notViewVars>>

\* handleAudioToggle while audioEnabled() is false, up to the await of
\* createAudioMoq
ToggleOn ==
  /\ ~audioEnabled
  /\ toggleCount < MaxStarts
  /\ toggleCount' = toggleCount + 1
  /\ toggles' = toggles \cup {[id |-> toggleCount + 1, pc |-> "connecting"]}
  /\ UNCHANGED <<members, lastMemberEvent, audioEnabled, audioMoq, audioCapture, bridges,
                 captures, notViewVars>>

\* createAudioMoq has resolved in run id: audioMoq = moq, the known peers
\* are subscribed, startAudioCapture is awaited
ToggleConnected(id) ==
  /\ [id |-> id, pc |-> "connecting"] \in toggles
  /\ toggles' = (toggles \ {[id |-> id, pc |-> "connecting"]})
                   \cup {[id |-> id, pc |-> "capturing"]}
  /\ bridges' = bridges \cup {[id |-> id, subs |-> subscribeKnownPeers(members)]}
  /\ audioMoq' = id
  /\ UNCHANGED <<members, lastMemberEvent, audioEnabled, audioCapture, toggleCount, captures,
                 notViewVars>>

\* startAudioCapture has resolved in run id: audioCapture = capture and
\* setAudioEnabled(true)
ToggleCaptured(id) ==
  /\ [id |-> id, pc |-> "capturing"] \in toggles
  /\ toggles' = toggles \ {[id |-> id, pc |-> "capturing"]}
  /\ captures' = captures \cup {id}
  /\ audioCapture' = id
  /\ audioEnabled' = TRUE
  /\ UNCHANGED <<members, lastMemberEvent, audioMoq, toggleCount, bridges, notViewVars>>

\* an await of run id has thrown: the catch calls stopAudio
ToggleFailed(id) ==
  /\ \E t \in toggles : t.id = id
  /\ toggles' = {t \in toggles : t.id # id}
  /\ stopAudio
  /\ UNCHANGED <<members, lastMemberEvent, toggleCount, notViewVars>>

\* ------------------------------------------------- controller lifecycle
\* stopController: controller.stop() and controller = null
stopController ==
  /\ running' = running \ {controllerHandle}
  /\ controllerHandle' = 0

\* the createEffect on props.session runs for a new session: ++runId,
\* stopController, the store and the signals are reset, startChat is called
SessionChange ==
  /\ mounted
  /\ runId < MaxRuns
  /\ runId' = runId + 1
  /\ stopController
  /\ members' = <<>>
  /\ pendingStarts' = pendingStarts \cup {runId + 1}
  /\ UNCHANGED <<mounted, stoppedOnArrival, lastMemberEvent, audioEnabled, audioMoq, audioCapture, toggles, toggleCount,
                 bridges, captures, notRunVars>>

\* a continuation of startChat that keeps every handle
isCurrentRunAlways(currentRun) == TRUE

\* if (currentRun === runId)
isCurrentRun(currentRun) == currentRun = runId

\* startChat of run currentRun resolves: WasmChatController.start has run;
\* the handle is kept if the run is the current one and stopped otherwise
StartChatDone(currentRun) ==
  /\ currentRun \in pendingStarts
  /\ pendingStarts' = pendingStarts \ {currentRun}
  /\ IF isCurrentRun(currentRun)
     THEN /\ controllerHandle' = currentRun
          /\ running' = running \cup {currentRun}
          /\ UNCHANGED stoppedOnArrival
     ELSE /\ stoppedOnArrival' = stoppedOnArrival \cup {currentRun}
          /\ UNCHANGED <<controllerHandle, running>>
  /\ UNCHANGED <<mounted, runId, viewVars, notRunVars>>

\* startChat of run currentRun rejects: the status is set
StartChatFailed(currentRun) ==
  /\ currentRun \in pendingStarts
  /\ pendingStarts' = pendingStarts \ {currentRun}
  /\ UNCHANGED <<mounted, runId, controllerHandle, running, stoppedOnArrival, viewVars,
                 notRunVars>>

\* onCleanup: stopController, stopAudio, runId += 1
Unmount ==
  /\ mounted
  /\ mounted' = FALSE
  /\ stopController
  /\ stopAudio
  /\ runId' = runId + 1
  /\ UNCHANGED <<pendingStarts, stoppedOnArrival, members, lastMemberEvent, toggles,
                 toggleCount, notRunVars>>

\* -------------------------------------------------------------- buildAAD
\* group roots of the form marmot/<hex>, one a prefix of the other
AadRoots == {<<"marmot/", "a1">>, <<"marmot/", "a1", "b2">>}

\* the track labels ChatView derives from the pubkeys
DerivedLabels == {trackLabelOf(pubkey) : pubkey \in ViewPubkeys}

\* track labels as a peer may announce them: any string
AnnouncedLabels == DerivedLabels \cup {<<"b2", "c3">>, <<"c3">>}

AadNumbers == 0..1

\* the arguments of buildAAD with the group root and epoch of its closure
AadTuples ==
  [moqRoot : AadRoots, trackLabel : AnnouncedLabels, epoch : AadNumbers,
   groupSeq : AadNumbers, frameIdx : AadNumbers, isKeyframe : BOOLEAN]

NoAad == [built |-> FALSE]

\* buildAAD is called with the tuple x
aadOf(x) ==
  [built |-> TRUE, tuple |-> x,
   bytes |-> buildAAD(x.moqRoot, x.epoch, x.trackLabel, x.groupSeq, x.frameIdx,
                      x.isKeyframe)]

BuildLeft(x) ==
  /\ aadLeft' = aadOf(x)
  /\ UNCHANGED <<aadRight, notAadVars>>

BuildRight(x) ==
  /\ aadRight' = aadOf(x)
  /\ UNCHANGED <<aadLeft, notAadVars>>

\* ------------------------------------------------------------- time
\* the wall-clock bound of the handshake passes; main.ts arms no timer for
\* it, so no handler runs
HandshakeDeadline ==
  /\ ~timedOut
  /\ timedOut' = TRUE
  /\ UNCHANGED <<relayVars, aliceHsVars, bobHsVars, hsVars, mlsVars, moqVars, fatalError, chatVars, bridgeVars, hostVars>>

\* -------------------------------------------------------- specification
\* main() of both roles has run to its first suspension: the handlers are
\* registered, bob has built and sent its first key-package offer, alice
\* has set its request interval and sent a first request-key-package
Init ==
  /\ events = << Envelope("key-package", "bob", NoGroup, NoGroup),
                 Envelope("request-key-package", "alice", NoGroup, NoGroup) >>
  /\ seenIds = [r \in Roles |-> {}]
  /\ runs = [r \in Roles |-> [id \in 1..MaxEvents |-> 0]]
  /\ dupDropped = FALSE
  /\ keyPackageStore = FALSE
  /\ groupIdHex = [r \in Roles |-> NoGroup]
  /\ handshakeComplete = [r \in Roles |-> FALSE]
  /\ keyPackageInterval = [r \in Roles |-> IF r = "alice" THEN "active" ELSE "unset"]
  /\ welcomeInterval = [r \in Roles |-> "unset"]
  /\ bobPc = "awaitPublish"
  /\ aliceAwait = 0
  /\ nextGroup = 1
  /\ createGroupCalls = 0
  /\ welcomeReplies = {}
  /\ acceptCalls = 0
  /\ lateWelcomes = 0
  /\ mls = [r \in Roles |-> InitMls]
  /\ pendingPeak = [r \in Roles |-> 0]
  /\ mergeLog = [r \in Roles |-> <<>>]
  /\ commits = [r \in Roles |-> 0]
  /\ connectPending = [r \in Roles |-> FALSE]
  /\ connected = [r \in Roles |-> FALSE]
  /\ outgoingTrack = [r \in Roles |-> FALSE]
  /\ waiting = [r \in Roles |-> <<>>]
  /\ track = [r \in Roles |-> <<>>]
  /\ readPos = [r \in Roles |-> 0]
  /\ postJoinPublishes = 0
  /\ fatalError = [r \in Roles |-> FALSE]
  /\ timedOut = FALSE
  /\ messages = [r \in Roles |-> <<>>]
  /\ sent = [r \in Roles |-> 0]
  /\ inboundDropped = [r \in Roles |-> {}]
  /\ bridgePc = "idle"
  /\ closed = FALSE
  /\ currentTrack = NoTrack
  /\ acquirePc = "requested"
  /\ trackRequests = 0
  /\ readyCalled = FALSE
  /\ readyCalls = 0
  /\ graceTimer = "unset"
  /\ accepted = FALSE
  /\ pendingPublish = <<>>
  /\ published = 0
  /\ written = <<>>
  /\ consumeLoops = <<>>
  /\ peerTrack = [p \in Peers |-> 0]
  /\ consumeErrors = 0
  /\ reported = {}
  /\ lateReady = FALSE
  /\ roster = {}
  /\ subscribedPeers = {}
  /\ addedPeers = {}
  /\ engine = "starting"
  /\ controller = FALSE
  /\ ready = FALSE
  /\ currentError = NoError
  /\ dismissTimers = {}
  /\ uiNow = 0
  /\ shownAt = 0
  /\ lastDismiss = "none"
  /\ fatalSurfaced = FALSE
  /\ opsAfterFatal = {}
  /\ epochNow = [p \in Parties |-> 0]
  /\ tx = TxOff
  /\ starts = 0
  /\ frameCounter = [session \in 1..MaxStarts |-> 0]
  /\ chunks = 0
  /\ inflight = {}
  /\ audioTrack = <<>>
  /\ rx = RxOff
  /\ lastRx = NoRx
  /\ members = <<>>
  /\ lastMemberEvent = "none"
  /\ audioEnabled = FALSE
  /\ audioMoq = 0
  /\ audioCapture = 0
  /\ toggles = {}
  /\ toggleCount = 0
  /\ bridges = {}
  /\ captures = {}
  /\ mounted = TRUE
  /\ runId = 0
  /\ pendingStarts = {}
  /\ controllerHandle = 0
  /\ running = {}
  /\ stoppedOnArrival = {}
  /\ aadLeft = NoAad
  /\ aadRight = NoAad

Next ==
  \/ \E r \in Roles, id \in 1..MaxEvents : DeliverDuplicate(r, id)
  \/ \E r \in Roles, id \in 1..MaxEvents : DeliverKeyPackage(r, id)
  \/ \E r \in Roles, id \in 1..MaxEvents : DeliverRequestKeyPackage(r, id)
  \/ \E r \in Roles, id \in 1..MaxEvents : DeliverRequestWelcome(r, id)
  \/ \E r \in Roles, id \in 1..MaxEvents : DeliverWelcome(r, id)
  \/ AliceGroupCreationResume
  \/ BobStartIntervals
  \/ BobKeyPackageTick
  \/ BobWelcomeTick
  \/ AliceKeyPackageTick
  \/ \E r \in Roles : ConnectMoq(r)
  \/ \E r \in Roles : TrackRequested(r)
  \/ \E r \in Roles : RotateCommit(r)
  \/ \E r \in Roles : ReadFrame(r)

Spec == Init /\ [][Next]_vars

\* the same client observed against the wall-clock bound of the handshake
NextDeadline == Next \/ HandshakeDeadline

SpecDeadline == Init /\ [][NextDeadline]_vars

\* the session in which no member rotates the epoch: the wrappers tracks stay
\* empty, so readTrack has nothing to hand to handleWrapper
NextHandshake ==
  \/ \E r \in Roles, id \in 1..MaxEvents : DeliverDuplicate(r, id)
  \/ \E r \in Roles, id \in 1..MaxEvents : DeliverKeyPackage(r, id)
  \/ \E r \in Roles, id \in 1..MaxEvents : DeliverRequestKeyPackage(r, id)
  \/ \E r \in Roles, id \in 1..MaxEvents : DeliverRequestWelcome(r, id)
  \/ \E r \in Roles, id \in 1..MaxEvents : DeliverWelcome(r, id)
  \/ AliceGroupCreationResume
  \/ BobStartIntervals
  \/ BobKeyPackageTick
  \/ BobWelcomeTick
  \/ AliceKeyPackageTick
  \/ \E r \in Roles : ConnectMoq(r)
  \/ \E r \in Roles : TrackRequested(r)

SpecHandshake == Init /\ [][NextHandshake]_vars

\* the session in which the handshake is over before a retry interval
\* (HANDSHAKE_RETRY_MS) fires and the relay delivers every envelope once: no
\* request-welcome is published, so its handler has nothing to run on
NextEpoch ==
  \/ \E r \in Roles, id \in 1..MaxEvents : DeliverKeyPackage(r, id)
  \/ \E r \in Roles, id \in 1..MaxEvents : DeliverRequestKeyPackage(r, id)
  \/ \E r \in Roles, id \in 1..MaxEvents : DeliverWelcome(r, id)
  \/ AliceGroupCreationResume
  \/ BobStartIntervals
  \/ \E r \in Roles : ConnectMoq(r)
  \/ \E r \in Roles : TrackRequested(r)
  \/ \E r \in Roles : RotateCommit(r)
  \/ \E r \in Roles : ReadFrame(r)

SpecEpoch == Init /\ [][NextEpoch]_vars

\* the same session with text messages sent by both members
NextChat ==
  \/ NextEpoch
  \/ \E r \in Roles : SendMessage(r)

SpecChat == Init /\ [][NextChat]_vars

\* the publishing half of one member's transport bridge
NextPublish ==
  \/ \E pp \in SUBSET Members : Connect(pp)
  \/ BridgePublish
  \/ \E k \in 0..MaxFrames : AcquireTrack(k)
  \/ AcquireOtherTrack
  \/ TrackClosed
  \/ \E message \in ErrorMessages : TrackClosedWithError(message)
  \/ \E k \in 0..MaxFrames : GraceTimer(k)
  \/ Close

SpecPublish == Init /\ [][NextPublish]_vars

\* the timer set by setTimeout(() => callOnReady(), 100) is never cleared,
\* so its callback runs
SpecPublishFair ==
  SpecPublish /\ WF_vars(\E k \in 0..MaxFrames : GraceTimer(k))

\* the consuming half of the bridge, with the controller that drives it
NextSubscribe ==
  \/ \E pp \in SUBSET Members : Connect(pp)
  \/ \E p \in Members : SubscribeToPeer(p)
  \/ \E i \in 1..MaxLoops : ConsumeFrame(i)
  \/ \E i \in 1..MaxLoops, message \in ErrorMessages : ConsumeError(i, message)
  \/ \E i \in 1..MaxLoops, from \in 0..MaxFrames : ConsumeRetry(i, from)
  \/ \E i \in 1..MaxLoops, from \in 0..MaxFrames : ConsumeEnd(i, from)
  \/ \E p \in Peers : PeerWrite(p)
  \/ Close
  \/ \E P \in Peers : InviteMember(P)
  \/ \E P \in Peers : IngestAddCommit(P)

SpecSubscribe == Init /\ [][NextSubscribe]_vars

\* the consuming half when the controller is the bridge's only caller
NextRoster ==
  \/ \E pp \in SUBSET Members : Connect(pp)
  \/ \E i \in 1..MaxLoops : ConsumeFrame(i)
  \/ \E i \in 1..MaxLoops, message \in ErrorMessages : ConsumeError(i, message)
  \/ \E i \in 1..MaxLoops, from \in 0..MaxFrames : ConsumeRetry(i, from)
  \/ \E i \in 1..MaxLoops, from \in 0..MaxFrames : ConsumeEnd(i, from)
  \/ \E p \in Peers : PeerWrite(p)
  \/ Close
  \/ \E P \in Peers : InviteMember(P)
  \/ \E P \in Peers : IngestAddCommit(P)

SpecRoster == Init /\ [][NextRoster]_vars

\* ChatView, its controller's events and the user
NextUi ==
  \/ SessionEffect
  \/ StartChatResolved
  \/ \E value \in BOOLEAN : EventReady(value)
  \/ \E message \in UiMessages, flag \in BOOLEAN : EventError(message, flag)
  \/ DismissError
  \/ \E message \in UiMessages, due \in 0..(MaxTime + UiTimeout) :
       AutoDismiss([message |-> message, due |-> due])
  \/ UiTick
  \/ \E b \in Buttons : Click(b)

SpecUi == Init /\ [][NextUi]_vars

\* the sending side of the audio path
NextAudioTx ==
  \/ \E p \in Parties : AdvanceEpoch(p)
  \/ \E root \in GroupRoots : StartAudio(root)
  \/ StopAudio
  \/ ChunkStart
  \/ \E n \in 1..MaxFrames : ChunkDone(n)

SpecAudioTx == Init /\ [][NextAudioTx]_vars

\* the audio path from one sender to one receiver
NextAudioRx ==
  \/ \E p \in Parties : AdvanceEpoch(p)
  \/ \E root \in GroupRoots : StartAudio(root)
  \/ ChunkStart
  \/ \E n \in 1..MaxFrames : ChunkDone(n)
  \/ \E root \in GroupRoots : StartListening(root)
  \/ StopListening
  \/ \E peerPubkey \in AudioPubkeys, k \in 1..MaxFrames : OnPeerAudio(peerPubkey, k)

SpecAudioRx == Init /\ [][NextAudioRx]_vars

\* the roster events and the audio toggle of one view
NextView ==
  \/ \E list \in Rosters : EventRoster(list)
  \/ \E member \in ChatMembers : EventMemberUpsert(member)
  \/ \E pubkey \in ViewPubkeys : EventMemberLeft(pubkey)
  \/ ToggleOff
  \/ ToggleOn
  \/ \E id \in 1..MaxStarts : ToggleConnected(id)
  \/ \E id \in 1..MaxStarts : ToggleCaptured(id)
  \/ \E id \in 1..MaxStarts : ToggleFailed(id)

SpecView == Init /\ [][NextView]_vars

\* the sessions of one view, its controllers and their roster events
NextSession ==
  \/ SessionChange
  \/ \E currentRun \in 1..MaxRuns : StartChatDone(currentRun)
  \/ \E currentRun \in 1..MaxRuns : StartChatFailed(currentRun)
  \/ Unmount
  \/ \E list \in Rosters : EventRoster(list)
  \/ \E member \in ChatMembers : EventMemberUpsert(member)
  \/ \E pubkey \in ViewPubkeys : EventMemberLeft(pubkey)

SpecSession == Init /\ [][NextSession]_vars

\* buildAAD applied to two tuples
NextAad ==
  \/ \E x \in AadTuples : BuildLeft(x)
  \/ \E x \in AadTuples : BuildRight(x)

SpecAad == Init /\ [][NextAad]_vars

\* ==================================================================
\* Properties
\* ==================================================================
WelcomeIds == {i \in 1..Len(events) : events[i].type = "welcome"}

\* the welcome of the first welcome envelope alice published
FirstWelcome ==
  LET first == CHOOSE i \in WelcomeIds : \A j \in WelcomeIds : i <= j
  IN events[first].welcome

\* C1: whenever both the creator and the invitee have completed the
\* handshake, they hold the same group identifier.
HandshakeAgreement ==
  (handshakeComplete["alice"] /\ handshakeComplete["bob"])
    => groupIdHex["alice"] = groupIdHex["bob"]

\* C2: an envelope delivered more than once runs its handlers for the first
\* delivery only: no role runs the handlers of one event id twice.
HandlersRunOncePerEvent ==
  \A r \in Roles : \A id \in 1..MaxEvents : runs[r][id] <= 1

\* C2 witness: an envelope whose handlers have run was delivered again and
\* the repeated delivery was dropped
DuplicateDeliveryDropped ==
  /\ dupDropped
  /\ \E r \in Roles : \E id \in seenIds[r] : runs[r][id] = 1

\* C3: within one session the creator invokes create_group at most once.
CreateGroupAtMostOnce == createGroupCalls <= 1

\* C4: every welcome published in answer to a request-welcome carries the
\* welcome that was first sent after create_group.
RepeatWelcomeIsFirstWelcome ==
  \A w \in welcomeReplies : w = FirstWelcome

HeartbeatsUntilAccepted ==
  (bobPc = "running" /\ acceptCalls = 0)
    => /\ keyPackageInterval["bob"] = "active"
       /\ welcomeInterval["bob"] = "active"

\* C7: once the invitee has accepted its first welcome it publishes no
\* further key-package or request-welcome envelope.
NoHeartbeatAfterAccept == postJoinPublishes = 0

\* C8: once the wall-clock bound has passed without the handshake having
\* completed, the retries have ended and a fatal error has been surfaced.
TimeoutEndsHandshake ==
  \A r \in Roles :
    (timedOut /\ ~handshakeComplete[r])
      => /\ keyPackageInterval[r] # "active"
         /\ welcomeInterval[r] # "active"
         /\ fatalError[r]

\* the merges of one group in a merge log produce pairwise different epochs
DistinctMergeEpochs(log) ==
  \A i, j \in 1..Len(log) : (i < j /\ log[i][1] = log[j][1]) => log[i][2] # log[j][2]

AtMostOnePendingCommit ==
  \A r \in Roles :
    /\ pendingPeak[r] <= 1
    /\ \A i \in 1..Len(mls[r].pending) : mls[r].pending[i].author # r

\* C10 witness: a member's rotation had its commit pending and merged it
RotationPendingMerged ==
  \E r \in Roles :
    /\ pendingPeak[r] = 1
    /\ \E i \in 1..Len(track[r] \o waiting[r]) : (track[r] \o waiting[r])[i].author = r
    /\ Len(mergeLog[r]) >= 1
    /\ mls[r].pending = <<>>

\* C11: the commit counter of every member equals the number of commits
\* that member has merged, its own rotations included.
CommitCounterCountsMerges ==
  \A r \in Roles : commits[r] = Len(mergeLog[r])

\* everything a member has handed to sendWrapper, in the order of the calls
Outbound(r) == track[r] \o waiting[r]

\* the application wrappers of p that r has read are in r's message list
Observed(r, p, frame) == <<p, frame.seq, FALSE>> \in Range(messages[r])

\* on the outbound stream of every member a commit of a group stands before
\* every wrapper the member built for a later epoch of that group
CommitBeforeLaterWrappers ==
  \A p \in Roles : \A i, j \in 1..Len(Outbound(p)) :
    ( /\ Outbound(p)[i].kind = "commit"
      /\ Outbound(p)[j].group = Outbound(p)[i].group
      /\ Outbound(p)[j].epoch > Outbound(p)[i].epoch ) => i < j

\* C12: a commit reaches the peer before every wrapper its author built after
\* the rotation, and every message sent after a rotation that a member of
\* its group has read from the track was decrypted and shown by that member.
PostRotationMessagesDecrypted ==
  /\ CommitBeforeLaterWrappers
  /\ \A r \in Roles : \A j \in 1..readPos[r] :
       LET t == track[peerRole(r)]
       IN ( /\ t[j].kind = "application"
            /\ mls[r].epoch[t[j].group] # NotMember
            /\ \E i \in 1..Len(t) : /\ t[i].kind = "commit"
                                     /\ t[i].group = t[j].group
                                     /\ t[i].epoch < t[j].epoch )
          => Observed(r, peerRole(r), t[j])

\* C13: no wrapper whose ingestion failed with a transient error is
\* discarded: it is kept for a retry after the next merge.
TransientFramesRetained ==
  \A r \in Roles : inboundDropped[r] = {}

\* C14: every message of a group that another member of the group has read
\* from the author's track is in that member's message list with
\* local = FALSE, and only messages of other members carry local = FALSE.
PeerMessagesObserved ==
  \A r \in Roles :
    /\ \A j \in 1..readPos[r] :
         ( /\ track[peerRole(r)][j].kind = "application"
           /\ mls[r].epoch[track[peerRole(r)][j].group] # NotMember )
           => Observed(r, peerRole(r), track[peerRole(r)][j])
    /\ \A i \in 1..Len(messages[r]) : messages[r][i][3] = (messages[r][i][1] = r)

\* a consumePeerTrack loop for peer P is running or waiting to retry
SubscribedTo(P) ==
  \E i \in 1..Len(consumeLoops) :
    consumeLoops[i].peer = P /\ consumeLoops[i].st # "ended"

\* C15: once a member has processed a commit that adds P, built locally by an
\* invite or read from a peer, and until the bridge is closed, P is in the
\* controller's subscription set and a subscription to P's wrappers track
\* is open
MemberAdditionSubscribes ==
  \A e \in addedPeers :
    ~closed => (e[1] \in subscribedPeers /\ SubscribedTo(e[1]))

\* one peer was added by an invite and another by an ingested commit, and a
\* frame of an added peer has been delivered
MemberAdditionSubscribesWitness ==
  /\ ~closed
  /\ \E a, b \in addedPeers : a[2] = "invite" /\ b[2] = "ingest"
  /\ \E e \in addedPeers : \E i \in 1..Len(consumeLoops) :
       consumeLoops[i].peer = e[1] /\ Len(consumeLoops[i].got) > 0

\* no peer has two consumePeerTrack loops
OneLoopPerPeer ==
  \A i, j \in 1..Len(consumeLoops) :
    consumeLoops[i].peer = consumeLoops[j].peer => i = j

WrittenFrames == [i \in 1..Len(written) |-> written[i][2]]

\* the frames the bridge holds or has written
HeldFrames == WrittenFrames \o pendingPublish

\* C17: no published frame is lost: every frame handed to publish is either
\* still queued or was written to a track, once each, and nothing stays
\* queued while a publish track is live, so the acceptance of a track
\* request writes every frame queued so far to that track
QueuedFramesWritten ==
  /\ Len(HeldFrames) = published
  /\ \A n \in 1..published : \E i \in 1..Len(HeldFrames) : HeldFrames[i] = n
  /\ currentTrack # NoTrack => pendingPublish = <<>>
  /\ \A i \in 1..Len(written) : written[i][1] \in 1..trackRequests

\* two frames were queued while no track was live and both were written
\* to the track accepted afterwards
QueuedFramesWrittenWitness ==
  \E i, j \in 1..Len(written) :
    /\ i < j /\ written[i][3] /\ written[j][3]
    /\ written[i][1] = currentTrack /\ written[j][1] = currentTrack

\* a limit below the number of frames the host publishes in one run
QueueLimit == MaxFrames - 1

\* C18: the queue of frames published before a publish track is live never
\* holds more than a fixed number of frames
PendingPublishBounded == Len(pendingPublish) <= QueueLimit

\* callbacks.onReady has run at most once, and it has run exactly when the
\* wrappers track was accepted or the grace timer has fired
ReadyOnFirstTrigger ==
  /\ readyCalls <= 1
  /\ readyCalled <=> readyCalls = 1
  /\ readyCalls = 1 <=> (accepted \/ graceTimer = "fired")

\* C19: on every connection callbacks.onReady runs exactly once, at the
\* first of the acceptance of the publish track and the expiry of the grace
\* timer, and it does run whether or not a subscriber ever appears
ReadyExactlyOnce ==
  /\ []ReadyOnFirstTrigger
  /\ (bridgePc = "connected") ~> (readyCalls = 1)

\* the track was accepted and the grace timer has fired, and onReady has
\* run once
ReadyExactlyOnceWitness ==
  accepted /\ graceTimer = "fired" /\ readyCalls = 1

\* the frames a loop has handed to callbacks.onFrame
FramesOf(i) == {consumeLoops[i].got[n] : n \in 1..Len(consumeLoops[i].got)}

\* C20: subscribing to a peer that is already subscribed, through the
\* initial peer list or an earlier call, opens no second subscription: no
\* frame of a peer is handed to the controller by two consume loops
SubscribePeerIdempotent ==
  \A i, j \in 1..Len(consumeLoops) :
    (i < j /\ consumeLoops[i].peer = consumeLoops[j].peer)
      => FramesOf(i) \cap FramesOf(j) = {}

\* C21: after consecutive transient errors on a peer track the wait before
\* the next subscription doubles from its first value up to the cap
BackoffGrows ==
  \A i \in 1..Len(consumeLoops) :
    (consumeLoops[i].st = "backoff" /\ consumeLoops[i].fails >= 1)
      => consumeLoops[i].delay = retryDelayDoubling(consumeLoops[i].fails)

\* the transient transport errors of the taxonomy: reset-stream, not-found
TransientTransport == {"RESET_STREAM", "track not found"}

\* the controller surfaces an error the bridge has propagated as an error
\* event with the fatal flag set
ErrorEvent(e) == [type |-> "error", message |-> e.message, fatal |-> TRUE]

CloseFlushes ==
  [][(~closed /\ closed') => pendingPublish' = <<>>]_vars

\* C26: after callbacks.onClosed no ready callback and no error callback is
\* invoked any more
NoCallbackAfterClosed ==
  /\ ~lateReady
  /\ \A e \in reported : ~e.late

NonFatalAutoDismissed ==
  (currentError # NoError /\ ~currentError.fatal)
    => uiNow - shownAt <= UiTimeout

\* the timer of a non-fatal error has removed it five seconds after it
\* was shown
NonFatalAutoDismissedWitness ==
  /\ currentError = NoError /\ lastDismiss = "timer"
  /\ uiNow = shownAt + UiTimeout

\* the encryptAudioFrame calls made so far, each with the audio session that
\* made it
Encryptions == inflight \cup {audioTrack[i] : i \in DOMAIN audioTrack}

CounterReuseOverlap ==
  \A e1, e2 \in inflight :
    (e1 # e2 /\ e1.session = e2.session) => e1.counter # e2.counter

\* no two published frames of different audio sessions carry the same
\* counter under the same base key
CounterReuseRestart ==
  \A i, j \in DOMAIN audioTrack :
    (audioTrack[i].session # audioTrack[j].session /\ audioTrack[i].ct.key = audioTrack[j].ct.key)
      => audioTrack[i].ct.counter # audioTrack[j].ct.counter

\* C28: once the sender's epoch has advanced while audio is on, every frame
\* encrypted afterwards uses the base key and the epoch number of the new
\* epoch
EncryptsWithCurrentEpoch ==
  [][chunks' = chunks + 1 =>
       \A x \in inflight' \ inflight :
         /\ x.ct.key = deriveMediaBaseKey(tx.root, epochNow["tx"], SenderPubkey,
                                          trackLabelOf(SenderPubkey))
         /\ x.ct.aad = buildAAD(tx.root, epochNow["tx"], trackLabelOf(SenderPubkey), 0,
                                x.ct.counter, x.ct.counter = 0)]_vars

\* C29: a frame that a group member receives on the track and under the
\* group root it was published on is decrypted with the key, counter and AAD
\* of its encryption and played as the sender's plaintext, whenever sender
\* and receiver enabled audio relative to the epoch changes
DecryptsWhatWasSent ==
  (lastRx.ran /\ lastRx.sameTrack /\ lastRx.sameRoot) => (lastRx.played /\ lastRx.intact)

\* the same for the frames encrypted under the epoch that sender and
\* receiver are both in when the frame arrives
DecryptsCurrentEpoch ==
  (lastRx.ran /\ lastRx.sameTrack /\ lastRx.sameRoot /\ lastRx.current)
    => (lastRx.played /\ lastRx.intact)

\* C30: a frame delivered as another peer's track, or to a receiver whose
\* group root is another one, fails authentication and is not played
ReplayRejected ==
  (lastRx.ran /\ ~(lastRx.sameTrack /\ lastRx.sameRoot)) => ~lastRx.played

\* a frame was delivered as the track of another peer, whose label has the
\* same first eight characters, in the same group, and was not played
ReplayRejectedWitness ==
  /\ lastRx.ran
  /\ ~lastRx.sameTrack
  /\ lastRx.sameRoot
  /\ lastRx.sameLabel
  /\ ~lastRx.played

\* a frame was delivered as its sender's track to a receiver under another
\* group root and was not played
ReplayAcrossGroups ==
  ~(lastRx.ran /\ lastRx.sameTrack /\ ~lastRx.sameRoot /\ ~lastRx.played)

SubscribesWherePeerPublishes ==
  \A b \in bridges : \A sub \in b.subs :
    sub.track = publishTrack(ViewRoot, sub.peer, trackLabelOf(sub.peer))

OneControllerActive ==
  /\ running \subseteq {runId}
  /\ running = (IF controllerHandle = 0 THEN {} ELSE {controllerHandle})
  /\ ~mounted => running = {}

\* the start of a superseded session has resolved after the start of the
\* current one, and the current controller is the only one running
OneControllerActiveWitness ==
  /\ stoppedOnArrival # {}
  /\ running = {runId}
  /\ pendingStarts = {}

\* C34: frames reach the publish track in the order publish() was called,
\* also a frame published from inside the ready callback or while the queue
\* is flushed
WrittenInPublishOrder ==
  \A i, j \in DOMAIN written : i < j => written[i][2] < written[j][2]

\* C35: two successive subscriptions of a consume loop to its peer track
\* are separated by at least the retry delay, also when the subscription
\* before ended without an error
ResubscribeAfterDelay ==
  \A i \in 1..Len(consumeLoops) :
    consumeLoops[i].waited # -1 => consumeLoops[i].waited >= retryDelay(1)

\* C37: the auto-dismiss timer of one non-fatal error removes no error that
\* was shown after it: a timer callback that clears the banner is the timer
\* that was set when the error in the banner was shown
TimerRemovesOwnError ==
  [][(currentError # NoError /\ currentError' = NoError /\ dismissTimers' # dismissTimers)
       => \A t \in dismissTimers \ dismissTimers' : t.due = shownAt + UiTimeout]_vars

\* the same, for a fatal error in the banner: no timer callback clears it
TimerKeepsFatalError ==
  [][(currentError.fatal /\ dismissTimers' # dismissTimers) => currentError' = currentError]_vars

\* C38: at most one audio capture and one audio bridge are active in a view,
\* and none once audio has been stopped, also when the toggle is activated
\* again while a start is still in progress
OneAudioActive ==
  /\ Cardinality(bridges) <= 1
  /\ Cardinality(captures) <= 1
  /\ (~audioEnabled /\ toggles = {}) => (bridges = {} /\ captures = {})

\* two bridges or two captures at once
OneAudioAtATime ==
  Cardinality(bridges) <= 1 /\ Cardinality(captures) <= 1

\* a bridge or a capture left over with audio off and no start in progress
NoAudioLeftOver ==
  (~audioEnabled /\ toggles = {}) => (bridges = {} /\ captures = {})

\* the subscriptions of the bridge the view holds
OpenSubscriptions ==
  UNION {{sub.peer : sub \in b.subs} : b \in {x \in bridges : x.id = audioMoq}}

\* C39: while audio is enabled every roster member other than the view's own
\* has an open audio subscription, also a member that joined after audio was
\* enabled
MembersSubscribed ==
  audioEnabled =>
    \A i \in DOMAIN members :
      members[i].pubkey # SenderPubkey => members[i].pubkey \in OpenSubscriptions

====
